---- MODULE Spec2Model ----
(***************************************************************************)
(* PID-file locking protocol of xivo/daemonize.py.                         *)
(*                                                                         *)
(* Several operating-system processes run pidfile_context() (or call       *)
(* unlock_pidfile() directly) on one PID file path.  Every system call of  *)
(* the code is one step; file contents, /proc command lines and program    *)
(* names are sequences of one-character strings so that formatting         *)
(* ("%s\n" % pid), parsing (int(readline().strip())), splitting and        *)
(* canonicalisation are computed the way the code computes them.           *)
(***************************************************************************)
EXTENDS Integers, Sequences, FiniteSets, TLC

(***************************************************************************)
(* Bounds.                                                                 *)
(***************************************************************************)
NProcs == 2

Procs == 1..NProcs

(***************************************************************************)
(* Characters and strings.                                                 *)
(***************************************************************************)
NUL == "NUL"
NL == "\n"
Digits == <<"0", "1", "2", "3", "4", "5", "6", "7", "8", "9">>
WhiteSpace == {" ", NL, "\t"}

Take(s, n) == SubSeq(s, 1, IF n < Len(s) THEN n ELSE Len(s))

Drop(s, n) == SubSeq(s, n + 1, Len(s))

EndsWith(s, suffix) ==
    /\ Len(s) >= Len(suffix)
    /\ SubSeq(s, Len(s) - Len(suffix) + 1, Len(s)) = suffix

RECURSIVE LStrip(_)
LStrip(s) == IF s # <<>> /\ Head(s) \in WhiteSpace THEN LStrip(Tail(s)) ELSE s

RECURSIVE RStrip(_)
RStrip(s) ==
    IF s # <<>> /\ s[Len(s)] \in WhiteSpace THEN RStrip(SubSeq(s, 1, Len(s) - 1)) ELSE s

\* str.strip()
Strip(s) == RStrip(LStrip(s))

\* file.readline(): the text up to and including the first newline
RECURSIVE ReadLine(_)
ReadLine(s) ==
    IF s = <<>> THEN <<>>
    ELSE IF Head(s) = NL THEN <<NL>>
    ELSE <<Head(s)>> \o ReadLine(Tail(s))

\* file.read(n)
ReadN(s, n) == Take(s, n)

DigitValue(c) == (CHOOSE i \in 1..10 : Digits[i] = c) - 1

IsDigit(c) == \E i \in 1..10 : Digits[i] = c

RECURSIVE DigitsValue(_, _)
DigitsValue(s, acc) ==
    IF s = <<>> THEN acc ELSE DigitsValue(Tail(s), acc * 10 + DigitValue(Head(s)))

\* A result of a call: the value it returns, or the error it raises
Ok(v) == [err |-> "", val |-> v]

Err(e) == [err |-> e, val |-> <<>>]

ValueError == "ValueError"

\* int(s) for an already stripped s: an optional sign and at least one digit
ParseInt(s) ==
    LET ds == IF s # <<>> /\ Head(s) \in {"+", "-"} THEN Tail(s) ELSE s
        neg == s # <<>> /\ Head(s) = "-"
    IN IF ds = <<>> \/ \E i \in 1..Len(ds) : ~IsDigit(ds[i]) THEN Err(ValueError)
       ELSE IF neg THEN Ok(0 - DigitsValue(ds, 0)) ELSE Ok(DigitsValue(ds, 0))

RECURSIVE NatStr(_)
NatStr(n) == IF n < 10 THEN <<Digits[n + 1]>> ELSE NatStr(n \div 10) \o <<Digits[(n % 10) + 1]>>

\* str(n)
Str(n) == IF n < 0 THEN <<"-">> \o NatStr(0 - n) ELSE NatStr(n)

\* the identifier is written without the newline
PidLineBare(pid) == Str(pid)

\* "%s\n" % pid
PidLine(pid) == Str(pid) \o <<NL>>

\* s.split(sep) for a one-character separator
RECURSIVE SplitAcc(_, _, _)
SplitAcc(s, sep, cur) ==
    IF s = <<>> THEN <<cur>>
    ELSE IF Head(s) = sep THEN <<cur>> \o SplitAcc(Tail(s), sep, <<>>)
    ELSE SplitAcc(Tail(s), sep, cur \o <<Head(s)>>)

Split(s, sep) == SplitAcc(s, sep, <<>>)

\* os.path.basename(p): what follows the last "/"
RECURSIVE BaseName(_)
BaseName(p) ==
    IF \E i \in 1..Len(p) : p[i] = "/"
    THEN BaseName(Drop(p, CHOOSE i \in 1..Len(p) : p[i] = "/"))
    ELSE p

PySuffix == <<".", "p", "y">>

StripPySuffix(arg) == IF EndsWith(arg, PySuffix) THEN SubSeq(arg, 1, Len(arg) - Len(PySuffix)) ELSE arg

c14n_prog_name(arg) == BaseName(StripPySuffix(arg))

(***************************************************************************)
(* The processes.  Contender p is an instance of the daemon "d" started    *)
(* as a script: its OS argument list is Argv(p), Python's sys.argv[0] is   *)
(* the script token.  Different contenders use different spellings of the  *)
(* same program.                                                           *)
(***************************************************************************)
Interp == <<"/", "b", "/", "p", "y">>

Argv(p) ==
    IF p % 2 = 1
    THEN << <<"p", "y">>, <<"/", "b", "/", "d">> >>
    ELSE << Interp, <<"d", ".", "p", "y">>, <<"-", "f">> >>

SysArgv0(p) == Argv(p)[2]

\* /proc/<pid>/cmdline of a process started with the given argument list:
\* every argument followed by a NUL
RECURSIVE RawCmdline(_)
RawCmdline(argv) == IF argv = <<>> THEN <<>> ELSE Head(argv) \o <<NUL>> \o RawCmdline(Tail(argv))

\* process identifiers of the contenders: 7, 12, 120, ... (one is a proper
\* prefix of the next, so that a partial read cannot tell them apart)
RECURSIVE PidOf(_)
PidOf(p) == IF p = 1 THEN 7 ELSE IF p = 2 THEN 12 ELSE 10 * PidOf(p - 1)

\* the process identifiers a contender may have
ContenderPids == {PidOf(i) : i \in 1..(NProcs + 1)}

\* the process identifiers os.fork() returns in daemonize: the first child
\* and the grandchild of contender p
MidPid(p) == PidOf(p) + 1
GrandPid(p) == PidOf(p) + 2

\* the process identifiers that may name a candidate file
CandPids == ContenderPids \cup {GrandPid(p) : p \in 1..NProcs}

(***************************************************************************)
(* Other processes of the machine, as /proc shows them while they live.    *)
(* cmdline is the raw content of /proc/<pid>/cmdline or an errno, exe the  *)
(* target of /proc/<pid>/exe or an errno.                                  *)
(***************************************************************************)
ENOENT == "ENOENT"
EACCES == "EACCES"
EEXIST == "EEXIST"
EPERM == "EPERM"
EIO == "EIO"
ENOSPC == "ENOSPC"

ForeignPids == {50, 51, 52, 53, 54, 55}

ForeignCmdline(pid) ==
    CASE pid = 50 -> Ok(<<"s", "h", NUL, "-", "c", NUL, "x", "d", NUL>>)
      [] pid = 51 -> Ok(<<"p", "y", NUL, "/", "o", "/", "d", ".", "p", "y", NUL>>)
      [] pid = 52 -> Ok(<<"d", ":", "w", NUL>>)
      [] pid = 53 -> Ok(<<"s", "h", NUL>>)
      [] pid = 54 -> Ok(<<>>)
      [] OTHER -> Err(EIO)

ForeignExe(pid) ==
    CASE pid = 50 -> Ok(<<"/", "b", "/", "s", "h">>)
      [] pid = 51 -> Ok(Interp)
      [] pid = 52 -> Ok(<<"/", "o", "/", "d">>)
      [] pid = 53 -> Err(EACCES)
      [] OTHER -> Err(ENOENT)

(***************************************************************************)
(* The file system: the PID file path and one candidate path per process   *)
(* identifier hold an inode number or NoFile; a hard link makes two paths  *)
(* hold the same inode.                                                    *)
(***************************************************************************)
NoFile == 0

InitIno == NProcs + 1

Inodes == 1..InitIno

\* what the PID file may hold before the first contender starts
InitContents ==
    { <<"9", "9", NL>>,
      <<"5", "0", NL>>, <<"5", "1", NL>>, <<"5", "2", NL>>,
      <<"5", "3", NL>>, <<"5", "4", NL>>, <<"5", "5", NL>>,
      <<"7", NL>>, <<"7">>, <<"0", "7", NL>>, <<"1", "2", NL, "x">>,
      <<"-", "1", NL>>, <<"x", NL>>, <<>> }

VARIABLES
    dirMode,       \* "ok", "readonly" (no create/unlink/link), "nolink" (no hard links),
                   \* "full" (no block left for the data of a file)
    lock,          \* inode at the PID file path, or NoFile
    cand,          \* inode at the candidate path  pidfile + "." + pid , per pid
    inode,         \* per inode: content and whether open() for reading succeeds
    dead,          \* foreign processes that have exited
    ospid,         \* os.getpid() of each contender
    pc,            \* position of each contender in the code
    pid_maydaemon, \* local of remove_if_stale_pidfile
    ris,           \* how remove_if_stale_pidfile ended
    linked,        \* outcome of os.link in take_file_lock
    content,       \* local "content" of take_file_lock / unlock_pidfile
    tfl,           \* return value of take_file_lock
    body,          \* how the body of the with statement completed
    exitcode,      \* exit status of the process
    emitted,       \* the log event the latest step of each contender emitted, "" for none
    heldAtStart,   \* the owner a contender found in its body when it started
    touched,       \* somebody else linked or unlinked the PID file path since the owner's link
    role,          \* which process of daemonize the contender is: "caller" (daemonize is
                   \* not called), "orig", "mid" (first child), "grand" (grandchild)
    orig,          \* the original process once the fork has left it behind
    mid,           \* the first child once the second fork has left it behind
    session,       \* the session of the process: the pid of its leader
    umaskv,        \* the file mode creation mask of the process
    cwd,           \* the working directory of the process
    fds,           \* what each descriptor number of the process is bound to
    devnull_fd     \* local devnull_fd of daemonize

\* the state daemonize works on
dvars == <<role, orig, mid, session, umaskv, cwd, fds, devnull_fd>>

vars == <<dirMode, lock, cand, inode, dead, ospid, pc, pid_maydaemon, ris, linked,
          content, tfl, body, exitcode, emitted, heldAtStart, touched,
          role, orig, mid, session, umaskv, cwd, fds, devnull_fd>>

NoExit == 0 - 1

Alive(p) == pc[p] \notin {"idle", "exited"}

\* pid is a live process of contender p: the process that executes its code,
\* the original process waiting for its child, or the first child on its
\* way out
Runs(p, pid) ==
    \/ Alive(p) /\ ospid[p] = pid
    \/ orig[p] = "waiting" /\ pid = PidOf(p)
    \/ mid[p] = "leaving" /\ pid = MidPid(p)

\* open(/proc/<pid>/cmdline).read()
ProcCmdline(pid) ==
    IF \E p \in Procs : Runs(p, pid)
    THEN Ok(RawCmdline(Argv(CHOOSE p \in Procs : Runs(p, pid))))
    ELSE IF pid \in ForeignPids \ dead THEN ForeignCmdline(pid)
    ELSE Err(ENOENT)

\* os.readlink(/proc/<pid>/exe)
ProcExe(pid) ==
    IF \E p \in Procs : Runs(p, pid) THEN Ok(Interp)
    ELSE IF pid \in ForeignPids \ dead THEN ForeignExe(pid)
    ELSE Err(ENOENT)

\* open(pidfile).read(): the whole content, or an errno
ReadPidFile ==
    IF lock = NoFile THEN Err(ENOENT)
    ELSE IF ~inode[lock].readable THEN Err(EACCES)
    ELSE Ok(inode[lock].content)

\* the descriptor numbers the model follows; 0, 1 and 2 are those of
\* sys.__stdin__, sys.__stdout__ and sys.__stderr__
Fds == 0..4
StdFds == {0, 1, 2}
NoFd == 0 - 1

\* what the launcher of the program hands down: its session, its umask
\* (022), its working directory, the terminal on the standard streams and,
\* when inherited, one more open file on descriptor 3
LauncherSession == 5
LauncherUmask == 18
LauncherCwd == "/srv"
FdTable(inherited) ==
    [fd \in Fds |-> IF fd \in StdFds THEN "tty"
                    ELSE IF fd = 3 /\ inherited THEN "file"
                    ELSE "closed"]

InitProcessState(inherited) ==
    /\ role = [p \in Procs |-> "caller"]
    /\ orig = [p \in Procs |-> "none"]
    /\ mid = [p \in Procs |-> "none"]
    /\ session = [p \in Procs |-> LauncherSession]
    /\ umaskv = [p \in Procs |-> LauncherUmask]
    /\ cwd = [p \in Procs |-> LauncherCwd]
    /\ fds = [p \in Procs |-> FdTable(inherited)]
    /\ devnull_fd = [p \in Procs |-> NoFd]

InitLocals ==
    /\ dead = {}
    /\ pc = [p \in Procs |-> "idle"]
    /\ pid_maydaemon = [p \in Procs |-> 0]
    /\ ris = [p \in Procs |-> "none"]
    /\ linked = [p \in Procs |-> "none"]
    /\ content = [p \in Procs |-> <<>>]
    /\ tfl = [p \in Procs |-> "none"]
    /\ body = [p \in Procs |-> "none"]
    /\ exitcode = [p \in Procs |-> NoExit]
    /\ emitted = [p \in Procs |-> ""]
    /\ heldAtStart = [p \in Procs |-> 0]
    /\ touched = [p \in Procs |-> FALSE]

Init ==
    /\ dirMode \in {"ok", "readonly", "nolink", "full"}
    /\ \/ /\ lock = NoFile
          /\ inode = [i \in Inodes |-> [content |-> <<>>, readable |-> TRUE]]
       \/ /\ lock = InitIno
          /\ \E c \in InitContents, r \in BOOLEAN :
                /\ r \/ c = <<"9", "9", NL>>
                /\ inode = [i \in Inodes |->
                              [content |-> IF i = InitIno THEN c ELSE <<>>,
                               readable |-> (i # InitIno) \/ r]]
    /\ cand = [k \in CandPids |-> NoFile]
    /\ ospid = [p \in Procs |-> PidOf(p)]
    /\ InitLocals
    /\ InitProcessState(FALSE)

(***************************************************************************)
(* System calls on the directory of the PID file: the errno they fail      *)
(* with, "" when they succeed.                                             *)
(***************************************************************************)
\* os.unlink(path) where the path holds ino
UnlinkErr(ino, mode) ==
    IF ino = NoFile THEN ENOENT
    ELSE IF mode = "readonly" THEN EACCES
    ELSE ""

\* a link that replaces an existing name, as rename does
LinkErrNoExcl(ino, mode) ==
    IF mode = "readonly" THEN EACCES
    ELSE IF mode = "nolink" THEN EPERM
    ELSE ""

\* os.link(src, dst) where dst holds ino: fails when the name exists
LinkErr(ino, mode) ==
    IF ino # NoFile THEN EEXIST
    ELSE IF mode = "readonly" THEN EACCES
    ELSE IF mode = "nolink" THEN EPERM
    ELSE ""

\* fpid.write(data) and fpid.close(): the file system has no block left
WriteErr(mode) == IF mode = "full" THEN ENOSPC ELSE ""

\* open(path, 'w') where the path holds ino: creates the file when absent
CreateErr(ino, mode) == IF ino = NoFile /\ mode = "readonly" THEN EACCES ELSE ""

\* an inode that no path holds any more is freed
Release(lk, cd) ==
    [i \in Inodes |->
        IF i = lk \/ \E k \in CandPids : cd[k] = i
        THEN inode[i]
        ELSE [content |-> <<>>, readable |-> TRUE]]

Log(p, event) == [emitted EXCEPT ![p] = event]

\* q has linked its candidate to the PID file path and has not left yet
Linker(q) ==
    \/ pc[q] = "tfl_unlink" /\ linked[q] = "ok"
    \/ pc[q] \in {"tfl_read", "body"}
    \/ pc[q] \in {"unl_read", "unl_unlink"} /\ tfl[q] = "True"

\* p links or unlinks the PID file path: every other process that has a
\* link of its own there has been interfered with
Touch(p) == [q \in Procs |-> IF q # p /\ Linker(q) THEN TRUE ELSE touched[q]]

(***************************************************************************)
(* remove_if_stale_pidfile                                                 *)
(***************************************************************************)
i_am(p) == c14n_prog_name(SysArgv0(p))

\* .split('\0') and the pop of a trailing empty token
CmdlineTokens(raw) ==
    LET t == Split(raw, NUL)
    IN IF Len(t) > 0 /\ t[Len(t)] = <<>> THEN SubSeq(t, 1, Len(t) - 1) ELSE t

\* the ENOENT of the read of /proc/<pid>/cmdline is re-raised like any error
NoSuchProcessNever(c) == FALSE

\* the IOError of the read of /proc/<pid>/cmdline is ENOENT (line 53)
NoSuchProcess(c) == c.err = ENOENT

\* only argv[0] of the other process is looked at
CmdlineHasNameFirst(name, tokens) == Len(tokens) > 0 /\ c14n_prog_name(tokens[1]) = name

\* the tokens are compared as they are, not canonicalised
CmdlineHasRawName(name, tokens) == \E i \in 1..Len(tokens) : tokens[i] = name

\* i_am in map(c14n_prog_name, other_cmdline)
CmdlineHasName(name, tokens) == \E i \in 1..Len(tokens) : c14n_prog_name(tokens[i]) = name

\* the whole path of the executable is compared, not its basename
ExeIsNameFull(name, exe) == exe.err = "" /\ exe.val = name

\* i_am == lock_pgm, lock_pgm being None after EACCES
ExeIsName(name, exe) == exe.err = "" /\ BaseName(exe.val) = name

\* every OSError of os.readlink is swallowed
ExeRaisesNever(exe) == FALSE

\* os.readlink raises for every failure, the permission error too
ExeRaisesAlways(exe) == exe.err # ""

\* the OSError of os.readlink is re-raised unless it is EACCES
ExeRaises(exe) == exe.err \notin {"", EACCES}

\* int(open(pidfile).readline().strip())
ParsePidFile(text) == ParseInt(Strip(ReadLine(text)))

\* return from remove_if_stale_pidfile to lock_pidfile_or_die
RisReturn(p, how, event) ==
    /\ ris' = [ris EXCEPT ![p] = how]
    /\ emitted' = Log(p, event)
    /\ pc' = [pc EXCEPT ![p] = "cand_open"]

\* the step to the next statement inside remove_if_stale_pidfile
RisGoto(p, where) ==
    /\ pc' = [pc EXCEPT ![p] = where]
    /\ emitted' = Log(p, "")
    /\ UNCHANGED ris

\* pidfile_context(pid_file_name, foreground=True) is entered
Start(p) ==
    /\ pc[p] = "idle"
    /\ pc' = [pc EXCEPT ![p] = "ris_read"]
    /\ heldAtStart' = [heldAtStart EXCEPT ![p] =
          IF \E o \in Procs :
                /\ pc[o] = "body"
                /\ ReadPidFile = Ok(PidLine(ospid[o]))
                /\ \A r \in Procs \ {o, p} : ~Alive(r)
          THEN CHOOSE o \in Procs : pc[o] = "body" /\ ReadPidFile = Ok(PidLine(ospid[o]))
          ELSE 0]
    /\ UNCHANGED <<dirMode, lock, cand, inode, dead, ospid, pid_maydaemon, ris, linked,
                   content, tfl, body, exitcode, emitted, touched>>
    /\ UNCHANGED dvars

\* line 37: read and parse the PID file
RisRead(p) ==
    /\ pc[p] = "ris_read"
    /\ LET r == ReadPidFile
           n == ParsePidFile(r.val)
       IN IF r.err = ENOENT THEN RisReturn(p, "absent", "") /\ UNCHANGED pid_maydaemon
          ELSE IF r.err # "" THEN RisReturn(p, "err_read", "ris_exception") /\ UNCHANGED pid_maydaemon
          ELSE IF n.err # "" THEN RisReturn(p, "err_value", "ris_exception") /\ UNCHANGED pid_maydaemon
          ELSE RisGoto(p, "ris_cmdline") /\ pid_maydaemon' = [pid_maydaemon EXCEPT ![p] = n.val]
    /\ UNCHANGED <<dirMode, lock, cand, inode, dead, ospid, linked, content, tfl, body,
                   exitcode, heldAtStart, touched>>
    /\ UNCHANGED dvars

\* lines 44-68: read /proc/<pid>/cmdline and look for our own name in it
RisCmdline(p) ==
    /\ pc[p] = "ris_cmdline"
    /\ LET c == ProcCmdline(pid_maydaemon[p])
       IN IF NoSuchProcess(c) THEN RisGoto(p, "ris_unlink_dead")
          ELSE IF c.err # "" THEN RisReturn(p, "err_cmdline", "ris_exception")
          ELSE IF CmdlineHasName(i_am(p), CmdlineTokens(c.val))
               THEN RisReturn(p, "owned_cmdline", "ris_warning")
          ELSE RisGoto(p, "ris_exe")
    /\ pid_maydaemon' = [pid_maydaemon EXCEPT ![p] = IF pc'[p] = "cand_open" THEN 0 ELSE @]
    /\ UNCHANGED <<dirMode, lock, cand, inode, dead, ospid, linked, content, tfl, body,
                   exitcode, heldAtStart, touched>>
    /\ UNCHANGED dvars

\* lines 71-106: resolve /proc/<pid>/exe and compare its basename
RisExe(p) ==
    /\ pc[p] = "ris_exe"
    /\ LET e == ProcExe(pid_maydaemon[p])
       IN IF ExeRaises(e) THEN RisReturn(p, "err_exe", "ris_exception")
          ELSE IF ExeIsName(i_am(p), e) THEN RisReturn(p, "owned_exe", "ris_warning")
          ELSE /\ pc' = [pc EXCEPT ![p] = "ris_unlink_live"]
               /\ emitted' = Log(p, "ris_info")
               /\ UNCHANGED ris
    /\ pid_maydaemon' = [pid_maydaemon EXCEPT ![p] = IF pc'[p] = "cand_open" THEN 0 ELSE @]
    /\ UNCHANGED <<dirMode, lock, cand, inode, dead, ospid, linked, content, tfl, body,
                   exitcode, heldAtStart, touched>>
    /\ UNCHANGED dvars

\* lines 56 and 111: os.unlink(pidfile)
RisUnlink(p) ==
    /\ pc[p] \in {"ris_unlink_dead", "ris_unlink_live"}
    /\ IF UnlinkErr(lock, dirMode) = ""
       THEN /\ lock' = NoFile
            /\ inode' = Release(NoFile, cand)
            /\ touched' = Touch(p)
            /\ RisReturn(p, IF pc[p] = "ris_unlink_dead" THEN "removed_dead" ELSE "removed_live", "")
       ELSE /\ RisReturn(p, "err_unlink", "ris_exception")
            /\ UNCHANGED <<lock, inode, touched>>
    /\ pid_maydaemon' = [pid_maydaemon EXCEPT ![p] = 0]
    /\ UNCHANGED <<dirMode, cand, dead, ospid, linked, content, tfl, body, exitcode,
                   heldAtStart>>
    /\ UNCHANGED dvars

\* the process a contender is inspecting exits
ForeignExit(f) ==
    /\ f \in ForeignPids \ dead
    /\ \E p \in Procs : pc[p] \in {"ris_cmdline", "ris_exe"} /\ pid_maydaemon[p] = f
    /\ dead' = dead \cup {f}
    /\ UNCHANGED <<dirMode, lock, cand, inode, ospid, pc, pid_maydaemon, ris, linked,
                   content, tfl, body, exitcode, emitted, heldAtStart, touched>>
    /\ UNCHANGED dvars

(***************************************************************************)
(* lock_pidfile_or_die and take_file_lock                                  *)
(***************************************************************************)
ExitFailure == 1

\* sys.exit(code), or the end of the program: the memory of the process is
\* gone; tch is the interference record the step leaves
Exit(p, code, tch) ==
    /\ pc' = [pc EXCEPT ![p] = "exited"]
    /\ exitcode' = [exitcode EXCEPT ![p] = code]
    /\ content' = [content EXCEPT ![p] = <<>>]
    /\ touched' = [tch EXCEPT ![p] = FALSE]

\* a read of len(own_content) - 1 characters
ReadBackShort(text, own_content) == ReadN(text, Len(own_content) - 1)

\* open(lock_file).read(len(own_content) + 1)
ReadBack(text, own_content) == ReadN(text, Len(own_content) + 1)

\* the content read back is not compared
TflAcceptsAny(text, own_content) == TRUE

\* take_file_lock returns True: not (content != own_content)
TflAccepts(text, own_content) == text = own_content

\* line 170: fpid = open(pid_write_file, 'w')
CandOpen(p) ==
    /\ pc[p] = "cand_open"
    /\ LET k == ospid[p]
       IN IF CreateErr(cand[k], dirMode) # ""
          THEN /\ Exit(p, ExitFailure, touched)
               /\ emitted' = Log(p, "lock_exception")
               /\ UNCHANGED <<cand, inode>>
          ELSE /\ cand' = [cand EXCEPT ![k] = IF @ = NoFile THEN p ELSE @]
               /\ inode' = [inode EXCEPT ![IF cand[k] = NoFile THEN p ELSE cand[k]].content = <<>>]
               /\ pc' = [pc EXCEPT ![p] = "cand_write"]
               /\ emitted' = Log(p, "")
               /\ UNCHANGED <<exitcode, content, touched>>
    /\ ris' = [ris EXCEPT ![p] = "none"]
    /\ UNCHANGED <<dirMode, lock, dead, ospid, pid_maydaemon, linked, tfl, body, heldAtStart>>
    /\ UNCHANGED dvars

\* lines 171-174: fpid.write("%s\n" % pid) and fpid.close(); the IOError of a
\* write that finds no space is caught at line 179 and ends the process
CandWrite(p) ==
    /\ pc[p] = "cand_write"
    /\ IF WriteErr(dirMode) # ""
       THEN /\ Exit(p, ExitFailure, touched)
            /\ emitted' = Log(p, "lock_exception")
            /\ UNCHANGED inode
       ELSE /\ inode' = [inode EXCEPT ![cand[ospid[p]]].content = PidLine(ospid[p])]
            /\ pc' = [pc EXCEPT ![p] = "tfl_link"]
            /\ UNCHANGED <<content, exitcode, emitted, touched>>
    /\ UNCHANGED <<dirMode, lock, cand, dead, ospid, pid_maydaemon, ris, linked,
                   tfl, body, heldAtStart>>
    /\ UNCHANGED dvars

\* line 131: os.link(own_file, lock_file)
TflLink(p) ==
    /\ pc[p] = "tfl_link"
    /\ LET e == LinkErr(lock, dirMode)
       IN IF e = ""
          THEN /\ lock' = cand[ospid[p]]
               /\ linked' = [linked EXCEPT ![p] = "ok"]
               /\ touched' = [Touch(p) EXCEPT ![p] = FALSE]
          ELSE /\ linked' = [linked EXCEPT ![p] = e]
               /\ UNCHANGED <<lock, touched>>
    /\ pc' = [pc EXCEPT ![p] = "tfl_unlink"]
    /\ UNCHANGED <<dirMode, cand, inode, dead, ospid, pid_maydaemon, ris, content, tfl,
                   body, exitcode, emitted, heldAtStart>>
    /\ UNCHANGED dvars

\* lines 133-144: os.unlink(own_file) in the finally clause, then the
\* handling of the OSError of the link
TflUnlinkOwn(p) ==
    /\ pc[p] = "tfl_unlink"
    /\ cand' = [cand EXCEPT ![ospid[p]] = NoFile]
    /\ inode' = Release(lock, cand')
    /\ IF linked[p] = "ok"
       THEN /\ pc' = [pc EXCEPT ![p] = "tfl_read"]
            /\ emitted' = Log(p, "")
            /\ UNCHANGED <<tfl, exitcode, content, touched>>
       ELSE IF linked[p] = EEXIST
       THEN /\ tfl' = [tfl EXCEPT ![p] = "False"]
            /\ emitted' = Log(p, "tfl_warning_exists")
            /\ Exit(p, ExitFailure, touched)
       ELSE /\ tfl' = [tfl EXCEPT ![p] = "raised"]
            /\ emitted' = Log(p, "lock_exception")
            /\ Exit(p, ExitFailure, touched)
    /\ linked' = [linked EXCEPT ![p] = "none"]
    /\ UNCHANGED <<dirMode, lock, dead, ospid, pid_maydaemon, ris, body, heldAtStart>>
    /\ UNCHANGED dvars

\* lines 145-154 and 175-182: re-read the lock file and compare
TflRead(p) ==
    /\ pc[p] = "tfl_read"
    /\ LET r == ReadPidFile
           own == PidLine(ospid[p])
       IN IF r.err # ""
          THEN /\ tfl' = [tfl EXCEPT ![p] = "raised"]
               /\ emitted' = Log(p, "lock_exception")
               /\ Exit(p, ExitFailure, touched)
          ELSE IF TflAccepts(ReadBack(r.val, own), own)
          THEN /\ content' = [content EXCEPT ![p] = ReadBack(r.val, own)]
               /\ tfl' = [tfl EXCEPT ![p] = "True"]
               /\ pc' = [pc EXCEPT ![p] = "body"]
               /\ emitted' = Log(p, "")
               /\ UNCHANGED <<exitcode, touched>>
          ELSE /\ tfl' = [tfl EXCEPT ![p] = "False"]
               /\ emitted' = Log(p, "tfl_warning_content")
               /\ Exit(p, ExitFailure, touched)
    /\ UNCHANGED <<dirMode, lock, cand, inode, dead, ospid, pid_maydaemon, ris, linked,
                   body, heldAtStart>>
    /\ UNCHANGED dvars

(***************************************************************************)
(* pidfile_context: the body and the release                               *)
(***************************************************************************)
BodyOutcomes == {"return", "exception", "sysexit"}

\* line 264: the body of the with statement completes
Body(p) ==
    /\ pc[p] = "body"
    /\ \E how \in BodyOutcomes : body' = [body EXCEPT ![p] = how]
    /\ pc' = [pc EXCEPT ![p] = "unl_read"]
    /\ content' = [content EXCEPT ![p] = <<>>]
    /\ UNCHANGED <<dirMode, lock, cand, inode, dead, ospid, pid_maydaemon, ris, linked, tfl,
                   exitcode, emitted, heldAtStart, touched>>
    /\ UNCHANGED dvars

\* unlock_pidfile(pidfile) called on its own
UnlockCall(p) ==
    /\ pc[p] = "idle"
    /\ pc' = [pc EXCEPT ![p] = "unl_read"]
    /\ UNCHANGED <<dirMode, lock, cand, inode, dead, ospid, pid_maydaemon, ris, linked,
                   content, tfl, body, exitcode, emitted, heldAtStart, touched>>
    /\ UNCHANGED dvars

\* the exit status once unlock_pidfile has returned: the exception of the
\* body propagates out of the context manager
StatusAfter(how) == IF how \in {"exception", "sysexit"} THEN ExitFailure ELSE 0

\* the PID file is unlinked whatever it contains
UnlockAllowsAny(text, pid) == TRUE

\* the content is compared with str(os.getpid()), without the newline
UnlockComparesBarePid(text, pid) == text = Take(pid, Len(pid) - 1)

\* if content == pid
UnlockAllows(text, pid) == text = pid

\* lines 191-198: read the PID file and compare with "%s\n" % os.getpid()
UnlRead(p) ==
    /\ pc[p] = "unl_read"
    /\ LET r == ReadPidFile
           own == PidLine(ospid[p])
       IN IF r.err # ""
          THEN /\ emitted' = Log(p, "unlock_error")
               /\ Exit(p, StatusAfter(body[p]), touched)
          ELSE IF UnlockAllows(ReadBack(r.val, own), own)
          THEN /\ content' = [content EXCEPT ![p] = ReadBack(r.val, own)]
               /\ pc' = [pc EXCEPT ![p] = "unl_unlink"]
               /\ emitted' = Log(p, "")
               /\ UNCHANGED <<exitcode, touched>>
          ELSE /\ emitted' = Log(p, "unlock_error")
               /\ Exit(p, StatusAfter(body[p]), touched)
    /\ UNCHANGED <<dirMode, lock, cand, inode, dead, ospid, pid_maydaemon, ris, linked,
                   tfl, body, heldAtStart>>
    /\ UNCHANGED dvars

\* line 194: os.unlink(pidfile)
UnlUnlink(p) ==
    /\ pc[p] = "unl_unlink"
    /\ IF UnlinkErr(lock, dirMode) = ""
       THEN /\ lock' = NoFile
            /\ inode' = Release(NoFile, cand)
            /\ emitted' = Log(p, "")
            /\ Exit(p, StatusAfter(body[p]), Touch(p))
       ELSE /\ emitted' = Log(p, "unlock_error")
            /\ Exit(p, StatusAfter(body[p]), touched)
            /\ UNCHANGED <<lock, inode>>
    /\ UNCHANGED <<dirMode, cand, dead, ospid, pid_maydaemon, ris, linked, tfl, body,
                   heldAtStart>>
    /\ UNCHANGED dvars

(***************************************************************************)
(* daemonize                                                               *)
(***************************************************************************)
\* how many contenders are started with foreground=False
MaxDaemons == 1

\* the state of the locking protocol that no step of daemonize touches
lvars == <<dirMode, lock, cand, inode, dead, pid_maydaemon, ris, linked, content,
           tfl, body, heldAtStart>>

\* pidfile_context takes the lock first: lock_pidfile_or_die runs in the
\* process that was started, before any fork
StartDaemonLockFirst(p) ==
    /\ pc[p] = "idle"
    /\ Cardinality({q \in Procs : role[q] # "caller"}) < MaxDaemons
    /\ pc' = [pc EXCEPT ![p] = "ris_read"]
    /\ role' = [role EXCEPT ![p] = "orig"]
    /\ UNCHANGED <<lvars, ospid, exitcode, emitted, touched,
                   orig, mid, session, umaskv, cwd, fds, devnull_fd>>

\* pidfile_context(pid_file_name, foreground=False) is entered: line 258
\* calls daemonize()
StartDaemon(p) ==
    /\ pc[p] = "idle"
    /\ Cardinality({q \in Procs : role[q] # "caller"}) < MaxDaemons
    /\ pc' = [pc EXCEPT ![p] = "dz_fork1"]
    /\ role' = [role EXCEPT ![p] = "orig"]
    /\ UNCHANGED <<lvars, ospid, exitcode, emitted, touched,
                   orig, mid, session, umaskv, cwd, fds, devnull_fd>>

\* the handler of a failed fork ends the process with status 0
ForkFailedExitsZero(p, event) ==
    /\ Exit(p, 0, touched)
    /\ emitted' = Log(p, event)

\* lines 219-221 and 231-233: except OSError: log.exception; sys.exit(1)
ForkFailed(p, event) ==
    /\ Exit(p, ExitFailure, touched)
    /\ emitted' = Log(p, event)

\* lines 214-221: the first os.fork(). The child goes on; the parent is
\* left in os.waitpid(pid, 0)
DzFork1(p) ==
    /\ pc[p] = "dz_fork1"
    /\ \/ /\ ospid' = [ospid EXCEPT ![p] = MidPid(p)]
          /\ role' = [role EXCEPT ![p] = "mid"]
          /\ orig' = [orig EXCEPT ![p] = "waiting"]
          /\ pc' = [pc EXCEPT ![p] = "dz_setsid"]
          /\ UNCHANGED <<content, exitcode, emitted, touched>>
       \/ /\ ForkFailed(p, "dz_fork1_failed")
          /\ UNCHANGED <<ospid, role, orig>>
    /\ UNCHANGED <<dirMode, lock, cand, inode, dead, pid_maydaemon, ris, linked,
                   tfl, body, heldAtStart, mid, session, umaskv, cwd, fds, devnull_fd>>

\* the session is left as it is
DzSetsidSkipped(p) ==
    /\ pc[p] = "dz_setsid"
    /\ pc' = [pc EXCEPT ![p] = "dz_umask"]
    /\ UNCHANGED <<lvars, ospid, exitcode, emitted, touched,
                   role, orig, mid, session, umaskv, cwd, fds, devnull_fd>>

\* line 223: os.setsid(): the caller leads a new session
DzSetsid(p) ==
    /\ pc[p] = "dz_setsid"
    /\ session' = [session EXCEPT ![p] = ospid[p]]
    /\ pc' = [pc EXCEPT ![p] = "dz_umask"]
    /\ UNCHANGED <<lvars, ospid, exitcode, emitted, touched,
                   role, orig, mid, umaskv, cwd, fds, devnull_fd>>

\* line 224: os.umask(0)
DzUmask(p) ==
    /\ pc[p] = "dz_umask"
    /\ umaskv' = [umaskv EXCEPT ![p] = 0]
    /\ pc' = [pc EXCEPT ![p] = "dz_chdir"]
    /\ UNCHANGED <<lvars, ospid, exitcode, emitted, touched,
                   role, orig, mid, session, cwd, fds, devnull_fd>>

\* line 225: os.chdir("/")
DzChdir(p) ==
    /\ pc[p] = "dz_chdir"
    /\ cwd' = [cwd EXCEPT ![p] = "/"]
    /\ pc' = [pc EXCEPT ![p] = "dz_fork2"]
    /\ UNCHANGED <<lvars, ospid, exitcode, emitted, touched,
                   role, orig, mid, session, umaskv, fds, devnull_fd>>

\* lines 227-233: the second os.fork(). The grandchild goes on with the
\* session, umask, directory and descriptors of its parent; the parent is
\* left before os._exit(0)
DzFork2(p) ==
    /\ pc[p] = "dz_fork2"
    /\ \/ /\ ospid' = [ospid EXCEPT ![p] = GrandPid(p)]
          /\ role' = [role EXCEPT ![p] = "grand"]
          /\ mid' = [mid EXCEPT ![p] = "leaving"]
          /\ pc' = [pc EXCEPT ![p] = "dz_open"]
          /\ UNCHANGED <<content, exitcode, emitted, touched>>
       \/ /\ ForkFailed(p, "dz_fork2_failed")
          /\ UNCHANGED <<ospid, role, mid>>
    /\ UNCHANGED <<dirMode, lock, cand, inode, dead, pid_maydaemon, ris, linked,
                   tfl, body, heldAtStart, orig, session, umaskv, cwd, fds, devnull_fd>>

\* line 230: os._exit(0) in the first child
MidExit(p) ==
    /\ mid[p] = "leaving"
    /\ mid' = [mid EXCEPT ![p] = "exit0"]
    /\ UNCHANGED <<lvars, ospid, pc, exitcode, emitted, touched,
                   role, orig, session, umaskv, cwd, fds, devnull_fd>>

\* the first child of p has ended: after its os._exit(0), or in the
\* sys.exit(1) of its failed fork
MidHasExited(p) == mid[p] = "exit0" \/ (role[p] = "mid" /\ pc[p] = "exited")

\* lines 217-218: os.waitpid(pid, 0) returns in the original process, which
\* calls os._exit(0)
OrigExit(p) ==
    /\ orig[p] = "waiting"
    /\ MidHasExited(p)
    /\ orig' = [orig EXCEPT ![p] = "exit0"]
    /\ UNCHANGED <<lvars, ospid, pc, exitcode, emitted, touched,
                   role, mid, session, umaskv, cwd, fds, devnull_fd>>

\* os.open returns the lowest descriptor number that is not open
LowestFree(table) == CHOOSE fd \in Fds : table[fd] = "closed" /\ \A g \in Fds : g < fd => table[g] # "closed"

\* line 236: devnull_fd = os.open(os.devnull, os.O_RDWR); lines 237-241
\* flush sys.stdout and sys.stderr, which changes nothing here
DzOpen(p) ==
    /\ pc[p] = "dz_open"
    /\ devnull_fd' = [devnull_fd EXCEPT ![p] = LowestFree(fds[p])]
    /\ fds' = [fds EXCEPT ![p][LowestFree(fds[p])] = "null"]
    /\ pc' = [pc EXCEPT ![p] = "dz_dup2"]
    /\ UNCHANGED <<lvars, ospid, exitcode, emitted, touched,
                   role, orig, mid, session, umaskv, cwd>>

\* os.dup2(fd, fd2): fd2 is bound to what fd is bound to
Dup2(table, fd, fd2) == [table EXCEPT ![fd2] = table[fd]]

\* lines 242-248: os.dup2(devnull_fd, stdf.fileno()) for sys.__stdin__,
\* sys.__stdout__ and sys.__stderr__; daemonize returns and line 261 calls
\* lock_pidfile_or_die
DzDup2(p) ==
    /\ pc[p] = "dz_dup2"
    /\ fds' = [fds EXCEPT ![p] = Dup2(Dup2(Dup2(@, devnull_fd[p], 0), devnull_fd[p], 1),
                                      devnull_fd[p], 2)]
    /\ devnull_fd' = [devnull_fd EXCEPT ![p] = NoFd]
    /\ pc' = [pc EXCEPT ![p] = "ris_read"]
    /\ UNCHANGED <<lvars, ospid, exitcode, emitted, touched,
                   role, orig, mid, session, umaskv, cwd>>

Next ==
    \/ \E p \in Procs : Start(p)
    \/ \E p \in Procs : RisRead(p)
    \/ \E p \in Procs : RisCmdline(p)
    \/ \E p \in Procs : RisExe(p)
    \/ \E p \in Procs : RisUnlink(p)
    \/ \E f \in ForeignPids : ForeignExit(f)
    \/ \E p \in Procs : CandOpen(p)
    \/ \E p \in Procs : CandWrite(p)
    \/ \E p \in Procs : TflLink(p)
    \/ \E p \in Procs : TflUnlinkOwn(p)
    \/ \E p \in Procs : TflRead(p)
    \/ \E p \in Procs : Body(p)
    \/ \E p \in Procs : UnlockCall(p)
    \/ \E p \in Procs : UnlRead(p)
    \/ \E p \in Procs : UnlUnlink(p)

Spec == Init /\ [][Next]_vars

(***************************************************************************)
(* The race inside take_file_lock alone: every contender, whatever its     *)
(* process identifier, has written its candidate file and is about to      *)
(* link it to a lock path that does not exist.                             *)
(***************************************************************************)
InitRace ==
    /\ dirMode = "ok"
    /\ lock = NoFile
    /\ ospid \in {f \in [Procs -> ContenderPids] : \A p, q \in Procs : p # q => f[p] # f[q]}
    /\ cand = [k \in CandPids |->
                 IF \E p \in Procs : ospid[p] = k THEN CHOOSE p \in Procs : ospid[p] = k
                 ELSE NoFile]
    /\ inode = [i \in Inodes |->
                  [content |-> IF i \in Procs THEN PidLine(ospid[i]) ELSE <<>>,
                   readable |-> TRUE]]
    /\ dead = {}
    /\ pc = [p \in Procs |-> "tfl_link"]
    /\ pid_maydaemon = [p \in Procs |-> 0]
    /\ ris = [p \in Procs |-> "none"]
    /\ linked = [p \in Procs |-> "none"]
    /\ content = [p \in Procs |-> <<>>]
    /\ tfl = [p \in Procs |-> "none"]
    /\ body = [p \in Procs |-> "none"]
    /\ exitcode = [p \in Procs |-> NoExit]
    /\ emitted = [p \in Procs |-> ""]
    /\ heldAtStart = [p \in Procs |-> 0]
    /\ touched = [p \in Procs |-> FALSE]
    /\ InitProcessState(FALSE)

NextRace ==
    \/ \E p \in Procs : TflLink(p)
    \/ \E p \in Procs : TflUnlinkOwn(p)
    \/ \E p \in Procs : TflRead(p)

SpecRace == InitRace /\ [][NextRace]_vars

(***************************************************************************)
(* pidfile_context with foreground=False or True: contenders that          *)
(* daemonize, or not, before they take the lock.  The PID file is absent,  *)
(* or left behind by process 99.                                           *)
(***************************************************************************)
InitDaemon ==
    /\ dirMode = "ok"
    /\ \E stale \in BOOLEAN :
          /\ lock = IF stale THEN InitIno ELSE NoFile
          /\ inode = [i \in Inodes |->
                        [content |-> IF stale /\ i = InitIno THEN PidLine(99) ELSE <<>>,
                         readable |-> TRUE]]
    /\ cand = [k \in CandPids |-> NoFile]
    /\ ospid = [p \in Procs |-> PidOf(p)]
    /\ InitLocals
    /\ \E inherited \in BOOLEAN : InitProcessState(inherited)

NextDaemon ==
    \/ \E p \in Procs : StartDaemon(p)
    \/ \E p \in Procs : DzFork1(p)
    \/ \E p \in Procs : DzSetsid(p)
    \/ \E p \in Procs : DzUmask(p)
    \/ \E p \in Procs : DzChdir(p)
    \/ \E p \in Procs : DzFork2(p)
    \/ \E p \in Procs : MidExit(p)
    \/ \E p \in Procs : OrigExit(p)
    \/ \E p \in Procs : DzOpen(p)
    \/ \E p \in Procs : DzDup2(p)
    \/ \E p \in Procs : Start(p)
    \/ \E p \in Procs : RisRead(p)
    \/ \E p \in Procs : RisCmdline(p)
    \/ \E p \in Procs : RisUnlink(p)
    \/ \E p \in Procs : CandOpen(p)
    \/ \E p \in Procs : CandWrite(p)
    \/ \E p \in Procs : TflLink(p)
    \/ \E p \in Procs : TflUnlinkOwn(p)
    \/ \E p \in Procs : TflRead(p)
    \/ \E p \in Procs : Body(p)
    \/ \E p \in Procs : UnlRead(p)
    \/ \E p \in Procs : UnlUnlink(p)

SpecDaemon == InitDaemon /\ [][NextDaemon]_vars

(***************************************************************************)
(* Properties                                                              *)
(***************************************************************************)
\* the processes whose acquisition has returned successfully and whose
\* release has not started
Holders == {p \in Procs : pc[p] = "body"}

\* C1: under any interleaving of the contenders' filesystem steps, also
\* from a stale PID file, at most one process at a time has acquired the
\* lock and not yet released it (at most one runs its body).
C1_AtMostOneHolder == Cardinality(Holders) <= 1

\* take_file_lock has returned in p (True: p is in its body; False or an
\* exception: p has exited)
Returned(p) == pc[p] \in {"body", "exited"}

\* C2: of the processes that race take_file_lock towards a lock path that
\* did not exist, at most one link succeeds, every other link fails with
\* EEXIST, and once all have returned exactly one has returned True and
\* every other one has returned False after the EEXIST warning.
C2_ExactlyOneWinsRace ==
    /\ Cardinality({p \in Procs : Linker(p)}) <= 1
    /\ \A p \in Procs : pc[p] = "tfl_unlink" => linked[p] \in {"ok", EEXIST}
    /\ (\A p \in Procs : Returned(p)) =>
          \E w \in Procs :
             /\ tfl[w] = "True"
             /\ \A q \in Procs \ {w} :
                   tfl[q] = "False" /\ emitted[q] = "tfl_warning_exists" /\ exitcode[q] = ExitFailure

C2_Witness ==
    /\ \A p \in Procs : Returned(p)
    /\ \E w \in Procs : tfl[w] = "True" /\ lock = w
    /\ \E q \in Procs : tfl[q] = "False"

\* p takes a step
Stepped(p) == pc'[p] # pc[p]

\* the PID file path and the files are as they were
FilesUntouched == lock' = lock /\ inode' = inode /\ cand' = cand

RisErrors == {"err_read", "err_value", "err_cmdline", "err_exe", "err_unlink"}

RisPcs == {"ris_read", "ris_cmdline", "ris_exe", "ris_unlink_dead", "ris_unlink_live"}

\* C3: when /proc has no cmdline entry for the recorded process identifier,
\* remove_if_stale_pidfile goes on to unlink the PID file and nothing else;
\* where the directory allows the unlink the path holds no file when the
\* function returns, and it reports the removal if the file was still there.
C3_DeadOwnerRemoved ==
    [][\A p \in Procs :
         /\ (/\ pc[p] = "ris_cmdline"
             /\ Stepped(p)
             /\ ProcCmdline(pid_maydaemon[p]).err = ENOENT)
            => pc'[p] = "ris_unlink_dead" /\ FilesUntouched
         /\ (pc[p] = "ris_unlink_dead" /\ Stepped(p) /\ dirMode # "readonly")
            => /\ lock' = NoFile
               /\ pc'[p] = "cand_open"
               /\ (lock # NoFile => ris'[p] = "removed_dead")]_vars

C3_Witness == \E p \in Procs : pc[p] = "cand_open" /\ ris[p] = "removed_dead" /\ lock = NoFile

\* C4: when the recorded process is alive and some token of its command
\* line canonicalises to the canonical name of the current program,
\* remove_if_stale_pidfile returns and the PID file is as it was.
C4_LiveMatchUntouched ==
    [][\A p \in Procs :
         LET c == ProcCmdline(pid_maydaemon[p])
         IN (/\ pc[p] = "ris_cmdline"
             /\ Stepped(p)
             /\ c.err = ""
             /\ \E i \in 1..Len(CmdlineTokens(c.val)) :
                   c14n_prog_name(CmdlineTokens(c.val)[i]) = c14n_prog_name(SysArgv0(p)))
            => /\ FilesUntouched
               /\ pc'[p] = "cand_open"
               /\ ris'[p] = "owned_cmdline"]_vars

C4_Witness ==
    \E p \in Procs :
       /\ pc[p] = "cand_open"
       /\ ris[p] = "owned_cmdline"
       /\ ReadPidFile.err = ""

\* C5: the recorded process is alive and no token of its command line
\* matches: if the basename of its executable is the current name the PID
\* file is left as it was; if the executable resolves to another name the
\* function goes on to unlink the PID file, and where the directory allows
\* the unlink the path holds no file when it returns.
C5_LiveUnrelatedRemoved ==
    [][\A p \in Procs :
         LET e == ProcExe(pid_maydaemon[p])
         IN /\ (pc[p] = "ris_exe" /\ Stepped(p) /\ e.err = "")
               => IF BaseName(e.val) = c14n_prog_name(SysArgv0(p))
                  THEN FilesUntouched /\ pc'[p] = "cand_open" /\ ris'[p] = "owned_exe"
                  ELSE FilesUntouched /\ pc'[p] = "ris_unlink_live"
            /\ (pc[p] = "ris_unlink_live" /\ Stepped(p) /\ dirMode # "readonly")
               => /\ lock' = NoFile
                  /\ pc'[p] = "cand_open"
                  /\ (lock # NoFile => ris'[p] = "removed_live")
            /\ pc'[p] = "ris_exe" /\ Stepped(p)
               => /\ pc[p] = "ris_cmdline"
                  /\ ProcCmdline(pid_maydaemon[p]).err = ""
                  /\ ~CmdlineHasName(i_am(p), CmdlineTokens(ProcCmdline(pid_maydaemon[p]).val))]_vars

C5_Witness == \E p \in Procs : pc[p] = "cand_open" /\ ris[p] = "removed_live" /\ lock = NoFile

\* C6: take_file_lock returns True, and lock_pidfile_or_die returns, exactly
\* when the PID file read back holds the decimal identifier of the process
\* followed by one newline and nothing else; otherwise the process exits
\* with a non-zero status.
C6_SuccessMeansOwnContent ==
    [][\A p \in Procs :
         (pc[p] = "tfl_read" /\ Stepped(p))
         => /\ (pc'[p] = "body") <=> (ReadPidFile = Ok(Str(ospid[p]) \o <<NL>>))
            /\ (tfl'[p] = "True") <=> (pc'[p] = "body")
            /\ pc'[p] # "body" => pc'[p] = "exited" /\ exitcode'[p] = ExitFailure]_vars

C6_Witness == \E p \in Procs : pc[p] = "body" /\ content[p] = PidLine(ospid[p])

\* C7: unlock_pidfile unlinks the PID file only after it has read the
\* identifier of the releasing process followed by a newline from it; when
\* the content differs or cannot be read, the files are left as they are,
\* an error is logged and unlock_pidfile returns (the exit status is that
\* of the body alone).
C7_UnlockOnlyOwn ==
    [][\A p \in Procs :
         /\ (pc[p] = "unl_read" /\ Stepped(p))
            => IF ReadPidFile = Ok(PidLine(ospid[p]))
               THEN pc'[p] = "unl_unlink" /\ FilesUntouched
               ELSE /\ FilesUntouched
                    /\ emitted'[p] = "unlock_error"
                    /\ pc'[p] = "exited"
                    /\ exitcode'[p] = StatusAfter(body[p])
         /\ (pc[p] \in {"unl_read", "unl_unlink"} /\ Stepped(p) /\ lock' # lock)
            => pc[p] = "unl_unlink" /\ content[p] = PidLine(ospid[p])
         /\ (pc[p] = "unl_unlink" /\ Stepped(p))
            => pc'[p] = "exited" /\ exitcode'[p] = StatusAfter(body[p])]_vars

C7_Witness ==
    \E p \in Procs :
       /\ pc[p] = "exited"
       /\ emitted[p] = "unlock_error"
       /\ ReadPidFile.err = ""
       /\ ReadPidFile.val # PidLine(ospid[p])

\* C8: a process that enters pidfile_context while another one, alone, is
\* in its body and owns the PID file, gets EEXIST from its link, never
\* reaches its body and exits with a non-zero status; as long as the owner
\* stays in its body the PID file holds the owner's identifier.
C8_SecondInstanceDies ==
    \A q \in Procs :
       LET o == heldAtStart[q]
       IN (o # 0 /\ pc[o] = "body")
          => /\ ReadPidFile = Ok(PidLine(ospid[o]))
             /\ pc[q] \notin {"tfl_read", "body", "unl_read", "unl_unlink"}
             /\ tfl[q] # "True"
             /\ pc[q] = "tfl_unlink" => linked[q] = EEXIST
             /\ pc[q] = "exited"
                => /\ exitcode[q] = ExitFailure
                   /\ tfl[q] = "False"
                   /\ emitted[q] = "tfl_warning_exists"

C8_Witness ==
    \E q \in Procs :
       /\ heldAtStart[q] # 0
       /\ pc[heldAtStart[q]] = "body"
       /\ pc[q] = "exited"

\* C9: whatever way the body completes, unlock_pidfile is what runs next,
\* and a process that acquired the lock leaves only through unlock_pidfile;
\* if nobody else linked or unlinked the PID file path since its own link,
\* the path holds no file when it leaves.
C9_ReleaseOnEveryExit ==
    [][\A p \in Procs :
         /\ (pc[p] = "body" /\ Stepped(p))
            => pc'[p] = "unl_read" /\ body'[p] \in BodyOutcomes /\ FilesUntouched
         /\ (tfl[p] = "True" /\ pc'[p] = "exited" /\ Stepped(p))
            => /\ pc[p] \in {"unl_read", "unl_unlink"}
               /\ ~touched[p] => lock' = NoFile]_vars

C9_Witness ==
    \E p \in Procs :
       /\ pc[p] = "exited"
       /\ tfl[p] = "True"
       /\ body[p] = "sysexit"
       /\ lock = NoFile

\* what makes the step p is about to take fail unexpectedly
RisFault(p) ==
    \/ pc[p] = "ris_read" /\ ReadPidFile.err \notin {"", ENOENT}
    \/ pc[p] = "ris_read" /\ ReadPidFile.err = "" /\ ParsePidFile(ReadPidFile.val).err # ""
    \/ pc[p] = "ris_cmdline" /\ ProcCmdline(pid_maydaemon[p]).err \notin {"", ENOENT}
    \/ pc[p] = "ris_exe" /\ ProcExe(pid_maydaemon[p]).err \notin {"", EACCES}
    \/ pc[p] \in {"ris_unlink_dead", "ris_unlink_live"} /\ (lock = NoFile \/ dirMode = "readonly")

\* C10: remove_if_stale_pidfile always returns to its caller; every
\* unexpected error (unparseable content, an error of the read other than
\* not-found, a failing /proc read, a failing unlink) is logged as an
\* exception, and the step that fails leaves the files as they are.
C10_DetectorSwallowsErrors ==
    [][\A p \in Procs :
         (pc[p] \in RisPcs /\ Stepped(p))
         => /\ pc'[p] \in RisPcs \cup {"cand_open"}
            /\ exitcode'[p] = NoExit
            /\ RisFault(p) <=> (ris'[p] \in RisErrors)
            /\ ris'[p] \in RisErrors
               => /\ pc'[p] = "cand_open"
                  /\ emitted'[p] = "ris_exception"
                  /\ FilesUntouched]_vars

C10_Witness ==
    \E p \in Procs : pc[p] = "cand_open" /\ ris[p] = "err_unlink" /\ lock # NoFile

\* lock_pidfile_or_die is over in p: it has returned, or the process has exited
AcquisitionOver(p) == pc[p] \in {"body", "unl_read", "unl_unlink", "exited"}

\* C11: the candidate file pidfile.<pid> exists only while the acquisition
\* runs: whatever the outcome of lock_pidfile_or_die (success, the name
\* already exists, content mismatch, any other failure that ends the
\* process), the candidate name is gone once it has returned or the process
\* has exited.
C11_CandidateRemoved ==
    \A p \in Procs : AcquisitionOver(p) => cand[ospid[p]] = NoFile

(***************************************************************************)
(* One instance alone in front of the PID file a dead owner left behind    *)
(***************************************************************************)
\* the owners a left-over PID file may name: none of them exists any more
GonePids == {99, PidOf(NProcs + 1)} \cup ForeignPids

InitLone ==
    /\ dirMode \in {"ok", "readonly", "nolink", "full"}
    /\ lock = InitIno
    /\ \E g \in GonePids :
          inode = [i \in Inodes |->
                     [content |-> IF i = InitIno THEN PidLine(g) ELSE <<>>,
                      readable |-> TRUE]]
    /\ cand = [k \in CandPids |-> NoFile]
    /\ ospid = [p \in Procs |-> PidOf(p)]
    /\ dead = ForeignPids
    /\ pc = [p \in Procs |-> "idle"]
    /\ pid_maydaemon = [p \in Procs |-> 0]
    /\ ris = [p \in Procs |-> "none"]
    /\ linked = [p \in Procs |-> "none"]
    /\ content = [p \in Procs |-> <<>>]
    /\ tfl = [p \in Procs |-> "none"]
    /\ body = [p \in Procs |-> "none"]
    /\ exitcode = [p \in Procs |-> NoExit]
    /\ emitted = [p \in Procs |-> ""]
    /\ heldAtStart = [p \in Procs |-> 0]
    /\ touched = [p \in Procs |-> FALSE]
    /\ InitProcessState(FALSE)

\* no other contender has started
Lone(p) == \A q \in Procs \ {p} : pc[q] = "idle"

NextLone ==
    \/ \E p \in Procs : Lone(p) /\ Start(p)
    \/ \E p \in Procs : Lone(p) /\ RisRead(p)
    \/ \E p \in Procs : Lone(p) /\ RisCmdline(p)
    \/ \E p \in Procs : Lone(p) /\ RisUnlink(p)
    \/ \E p \in Procs : Lone(p) /\ CandOpen(p)
    \/ \E p \in Procs : Lone(p) /\ CandWrite(p)
    \/ \E p \in Procs : Lone(p) /\ TflLink(p)
    \/ \E p \in Procs : Lone(p) /\ TflUnlinkOwn(p)
    \/ \E p \in Procs : Lone(p) /\ TflRead(p)
    \/ \E p \in Procs : Lone(p) /\ Body(p)
    \/ \E p \in Procs : Lone(p) /\ UnlRead(p)
    \/ \E p \in Procs : Lone(p) /\ UnlUnlink(p)

\* the lone process is scheduled as long as it has a step to take
SpecLone == InitLone /\ [][NextLone]_vars /\ WF_vars(NextLone)

\* the stages of the recovery on a directory that permits it
C12_Stages ==
    dirMode = "ok" =>
       \A p \in Procs :
          /\ pc[p] = "cand_open" => ris[p] = "removed_dead" /\ lock = NoFile
          /\ pc[p] = "tfl_unlink"
             => linked[p] = "ok" /\ ReadPidFile = Ok(PidLine(ospid[p]))
          /\ pc[p] = "body"
             => /\ tfl[p] = "True"
                /\ content[p] = PidLine(ospid[p])
                /\ ReadPidFile = Ok(PidLine(ospid[p]))
          /\ pc[p] = "exited" => tfl[p] = "True"

\* C12: when the PID file names a process that no longer exists and one
\* process alone runs lock_pidfile_or_die, the detector deletes the stale
\* file, the process publishes its own "<pid>\n", reads it back identical
\* and reports success: the left-over lock does not block the lone instance,
\* which always gets to its body.
C12_StaleLockRecovery ==
    /\ []C12_Stages
    /\ (\E p \in Procs : pc[p] = "ris_read" /\ dirMode = "ok")
          ~> (\E p \in Procs : pc[p] = "body" /\ lock = p)

C12_Witness ==
    \E p \in Procs :
       /\ dirMode = "ok"
       /\ pc[p] = "body"
       /\ Lone(p)
       /\ ReadPidFile = Ok(PidLine(ospid[p]))

\* the PID file at the path is the one a live process other than p has
\* linked there, and it holds the "<pid>\n" of that process
LiveOwnerOtherThan(p) ==
    \E o \in Procs \ {p} :
       /\ Linker(o)
       /\ lock = o
       /\ ReadPidFile = Ok(PidLine(ospid[o]))

\* C13: under any interleaving, the detector never unlinks a PID file whose
\* recorded owner is, at the moment of the unlink, a live process running
\* the same program and other than the process that unlinks.
C13_LiveOwnerNeverUnlinked ==
    [][\A p \in Procs :
         (pc[p] \in {"ris_unlink_dead", "ris_unlink_live"} /\ Stepped(p) /\ lock' # lock)
         => ~LiveOwnerOtherThan(p)]_vars

\* C14: unlock_pidfile never removes a PID file that has changed owner
\* since its check: when the unlink step of a process that had acquired
\* the lock executes, the file at the path holds the "<pid>\n" of that
\* process.
C14_UnlockUnlinksOwnFile ==
    [][\A p \in Procs :
         (pc[p] = "unl_unlink" /\ tfl[p] = "True" /\ Stepped(p) /\ lock' # lock)
         => ReadPidFile = Ok(PidLine(ospid[p]))]_vars

\* C15: when the recorded process is alive, no token of its command line
\* matches and the resolution of its executable fails with a permission
\* error, the result is inconclusive and the detector goes on to delete the
\* PID file; any other failure of the resolution is an unexpected error
\* that is logged and leaves the file in place.
C15_ExeErrorHandling ==
    [][\A p \in Procs :
         /\ (pc[p] = "ris_exe" /\ Stepped(p))
            => LET e == ProcExe(pid_maydaemon[p])
               IN /\ e.err = EACCES => pc'[p] = "ris_unlink_live" /\ FilesUntouched
                  /\ e.err \notin {"", EACCES}
                     => /\ pc'[p] = "cand_open"
                        /\ ris'[p] = "err_exe"
                        /\ emitted'[p] = "ris_exception"
                        /\ FilesUntouched
         /\ (pc[p] = "ris_unlink_live" /\ Stepped(p)
               /\ ProcExe(pid_maydaemon[p]).err = EACCES
               /\ lock # NoFile /\ dirMode # "readonly")
            => lock' = NoFile /\ ris'[p] = "removed_live"]_vars

\* the resolution of the executable of the live owner has failed with the
\* permission error and the detector stands before its unlink
C15_Witness ==
    \E p \in Procs :
       /\ pc[p] = "ris_unlink_live"
       /\ lock # NoFile
       /\ ProcCmdline(pid_maydaemon[p]).err = ""
       /\ ProcExe(pid_maydaemon[p]).err = EACCES

\* the positions inside daemonize
DzPcs == {"dz_fork1", "dz_setsid", "dz_umask", "dz_chdir", "dz_fork2", "dz_open", "dz_dup2"}

\* daemonize has returned in the process of contender p, which goes on
\* with the lock
DaemonizeReturned(p) == role[p] # "caller" /\ pc[p] \notin DzPcs \cup {"idle", "exited"}

\* C16: daemonize runs in a fixed order: the first fork; in the first child
\* setsid, then umask(0), then chdir("/"); then the second fork, after which
\* the intermediate process only exits.  The one process that returns from
\* daemonize is the grandchild, a member of the session the first child
\* created and not its leader, and the original process exits with status 0
\* only once the intermediate child has exited.
C16_DaemonizeOrder ==
    \A p \in Procs :
       /\ pc[p] = "dz_fork1"
          => role[p] = "orig" /\ orig[p] = "none" /\ session[p] = LauncherSession
       /\ pc[p] = "dz_setsid"
          => /\ role[p] = "mid" /\ ospid[p] = MidPid(p) /\ orig[p] = "waiting"
             /\ session[p] = LauncherSession
             /\ umaskv[p] = LauncherUmask /\ cwd[p] = LauncherCwd
       /\ pc[p] = "dz_umask"
          => /\ role[p] = "mid" /\ session[p] = ospid[p]
             /\ umaskv[p] = LauncherUmask /\ cwd[p] = LauncherCwd
       /\ pc[p] = "dz_chdir"
          => /\ role[p] = "mid" /\ session[p] = ospid[p]
             /\ umaskv[p] = 0 /\ cwd[p] = LauncherCwd
       /\ pc[p] = "dz_fork2"
          => /\ role[p] = "mid" /\ session[p] = ospid[p]
             /\ umaskv[p] = 0 /\ cwd[p] = "/" /\ mid[p] = "none"
       /\ role[p] = "grand"
          => /\ ospid[p] = GrandPid(p)
             /\ session[p] = MidPid(p) /\ session[p] # ospid[p]
             /\ umaskv[p] = 0 /\ cwd[p] = "/"
             /\ mid[p] \in {"leaving", "exit0"}
       /\ mid[p] # "none" => role[p] = "grand"
       /\ DaemonizeReturned(p) => role[p] = "grand"
       /\ orig[p] = "exit0" => MidHasExited(p)
       /\ orig[p] # "none" => role[p] \in {"mid", "grand"}

C16_Witness ==
    \E p \in Procs :
       /\ role[p] = "grand"
       /\ pc[p] = "ris_read"
       /\ session[p] = MidPid(p)
       /\ mid[p] = "exit0"
       /\ orig[p] = "exit0"

\* the process of p has taken no step of the lock acquisition and has not
\* touched its standard streams
NothingAfterFork(p) ==
    /\ tfl[p] = "none" /\ ris[p] = "none" /\ linked[p] = "none"
    /\ lock # p
    /\ \A k \in CandPids : cand[k] # p
    /\ \A fd \in Fds : fds[p][fd] # "null"

\* C17: when a fork of daemonize fails, the process in which it failed
\* ends with a non-zero exit status, and that process has executed none of
\* the later steps of daemonize nor the lock acquisition.
C17_ForkFailureIsFatal ==
    \A p \in Procs :
       /\ (pc[p] = "exited" /\ emitted[p] = "dz_fork1_failed")
          => /\ exitcode[p] = ExitFailure
             /\ role[p] = "orig" /\ ospid[p] = PidOf(p) /\ orig[p] = "none"
             /\ session[p] = LauncherSession
             /\ umaskv[p] = LauncherUmask /\ cwd[p] = LauncherCwd
             /\ NothingAfterFork(p)
       /\ (pc[p] = "exited" /\ emitted[p] = "dz_fork2_failed")
          => /\ exitcode[p] = ExitFailure
             /\ role[p] = "mid" /\ ospid[p] = MidPid(p) /\ mid[p] = "none"
             /\ NothingAfterFork(p)
       /\ (pc[p] = "exited" /\ role[p] \in {"orig", "mid"})
          => emitted[p] \in {"dz_fork1_failed", "dz_fork2_failed"}
       /\ (pc[p] \notin {"exited", "dz_fork1"} /\ role[p] = "orig") => FALSE
       /\ (pc[p] \notin {"exited", "dz_setsid", "dz_umask", "dz_chdir", "dz_fork2"}
             /\ role[p] = "mid") => FALSE

\* the second fork has failed in the first child, which has ended with
\* status 1 in the session it leads, and the original process has seen it end
C17_Witness ==
    \E p \in Procs :
       /\ pc[p] = "exited"
       /\ emitted[p] = "dz_fork2_failed"
       /\ exitcode[p] = ExitFailure
       /\ session[p] = MidPid(p)
       /\ orig[p] = "exit0"

\* the descriptors that are open in the process of p
OpenFds(p) == {fd \in Fds : fds[p][fd] # "closed"}

\* the descriptors that were open when daemonize was called: the standard
\* streams and what the launcher handed down (daemonize opens nothing but
\* the null device and closes nothing)
OpenBeforeDaemonize(p) == StdFds \cup {fd \in Fds : fds[p][fd] = "file"}

\* C18: daemonize leaks no descriptor: once it has returned in the final
\* process, the open descriptors are those that were open before the call,
\* the three standard streams now bound to the null device; the descriptor
\* the procedure opened on the null device is not left open.
C18_NoDescriptorLeak ==
    \A p \in Procs :
       DaemonizeReturned(p)
       => /\ OpenFds(p) = OpenBeforeDaemonize(p)
          /\ \A fd \in StdFds : fds[p][fd] = "null"

\* the process of p that takes the lock: the caller itself, or the
\* grandchild when the context daemonizes
FinalPid(p) == IF role[p] = "caller" THEN PidOf(p) ELSE GrandPid(p)

\* the positions from the start of the stale detection to the release
LockPcs == {"ris_read", "ris_cmdline", "ris_exe", "ris_unlink_dead", "ris_unlink_live",
            "cand_open", "cand_write", "tfl_link", "tfl_unlink", "tfl_read", "body",
            "unl_read", "unl_unlink"}

\* C19: with foreground=False, daemonize has completed before the stale
\* detection and the lock acquisition start, so that the identifier written
\* to the PID file is that of the grandchild, never that of the original or
\* of the intermediate process; with foreground=True no process is
\* duplicated and the identifier is that of the caller.
C19_LockAfterDaemonize ==
    \A p \in Procs :
       /\ (role[p] # "caller" /\ pc[p] \in LockPcs)
          => /\ role[p] = "grand" /\ ospid[p] = GrandPid(p)
             /\ \A fd \in StdFds : fds[p][fd] = "null"
       /\ pc[p] \in DzPcs
          => /\ ris[p] = "none" /\ tfl[p] = "none" /\ linked[p] = "none"
             /\ lock # p /\ \A k \in CandPids : cand[k] # p
       /\ \A k \in CandPids : cand[k] = p => k = FinalPid(p)
       /\ inode[p].content \in {<<>>, PidLine(FinalPid(p))}
       /\ lock = p => inode[p].content = PidLine(FinalPid(p))
       /\ role[p] = "caller"
          => /\ ospid[p] = PidOf(p) /\ orig[p] = "none" /\ mid[p] = "none"
             /\ session[p] = LauncherSession /\ fds[p][0] = "tty"

\* a grandchild holds the lock under its own identifier after a foreground
\* caller has held and released it under its own
C19_Witness ==
    /\ \E p \in Procs :
          /\ role[p] = "grand" /\ pc[p] = "body"
          /\ lock = p
          /\ ReadPidFile = Ok(PidLine(GrandPid(p)))
    /\ \E q \in Procs :
          role[q] = "caller" /\ pc[q] = "exited" /\ tfl[q] = "True"

\* text is exactly the decimal representation of a process identifier
\* followed by one newline
IsPidLine(text) ==
    /\ ParsePidFile(text).err = ""
    /\ ParsePidFile(text).val > 0
    /\ text = Str(ParsePidFile(text).val) \o <<NL>>

\* the PID file is absent or holds a well-formed identifier line, that of
\* the contender whose candidate it is when a contender has linked it
PidFileWellFormed ==
    /\ lock # NoFile => IsPidLine(inode[lock].content)
    /\ lock \in Procs => inode[lock].content = Str(ospid[lock]) \o <<NL>>

\* the path is changed by an unlink, or by the link of the written
\* candidate of the process that takes the step, and a file that stays at
\* the path keeps its content
PidFileLinkedOrUnlinked ==
    /\ (lock' = lock /\ lock # NoFile) => inode'[lock].content = inode[lock].content
    /\ lock' # lock
       => \/ lock' = NoFile
          \/ /\ lock = NoFile
             /\ lock' \in Procs
             /\ pc[lock'] = "tfl_link" /\ pc'[lock'] = "tfl_unlink"
             /\ cand[ospid[lock']] = lock'
             /\ inode'[lock'].content = Str(ospid[lock']) \o <<NL>>

\* C20: starting from a PID file that is absent or holds a valid
\* "<decimal-pid>\n", in every reachable state, whatever the sequence of
\* acquisitions, stale cleanups and releases, the PID file is absent or
\* holds exactly the "<decimal-pid>\n" of the process that linked it; the
\* path changes only by link and unlink and the content of the file is
\* never rewritten in place.
C20_PidFileContent ==
    /\ PidFileWellFormed => []PidFileWellFormed
    /\ [][PidFileLinkedOrUnlinked]_vars

\* a second owner holds the path under its own identifier after a first
\* one has acquired and released it
C20_Witness ==
    \E p, q \in Procs :
       /\ p # q
       /\ pc[q] = "exited" /\ tfl[q] = "True"
       /\ pc[p] = "body" /\ lock = p
       /\ inode[lock].content = Str(ospid[p]) \o <<NL>>

====
